---- MODULE Spec2Model ----
EXTENDS Integers, Sequences, FiniteSets, TLC

\* The packager of holochain-cmd: package walks a directory tree into one
\* JSON document (src/src/cli/package.rs, Packager), running the build of
\* every directory that holds a .build file (src/src/config_files/build.rs),
\* and unpack writes a tree back from such a document.

\* ---------------------------------------------------------------- text
\* A string is a sequence of one-character strings; a byte is 0..255.
AsciiLow ==
  << " ", "!", "\"", "#", "$", "%", "&", "'", "(", ")", "*", "+", ",", "-", ".", "/",
     "0", "1", "2", "3", "4", "5", "6", "7", "8", "9", ":", ";", "<", "=", ">", "?",
     "@", "A", "B", "C", "D", "E", "F", "G", "H", "I", "J", "K", "L", "M", "N", "O",
     "P", "Q", "R", "S", "T", "U", "V", "W", "X", "Y", "Z", "[", "\\", "]", "^", "_" >>

AsciiHigh ==
  << "a", "b", "c", "d", "e", "f", "g", "h", "i", "j", "k", "l", "m", "n", "o",
     "p", "q", "r", "s", "t", "u", "v", "w", "x", "y", "z", "{", "|", "}", "~" >>

\* the characters of the model: line feed, 32..95 and 97..126
Chars ==
  {"\n"} \cup {AsciiLow[i] : i \in 1..Len(AsciiLow)}
         \cup {AsciiHigh[i] : i \in 1..Len(AsciiHigh)}

OrdTable ==
  [c \in Chars |->
     IF c = "\n" THEN 10
     ELSE IF \E i \in 1..Len(AsciiLow) : AsciiLow[i] = c
          THEN 31 + (CHOOSE i \in 1..Len(AsciiLow) : AsciiLow[i] = c)
          ELSE 96 + (CHOOSE i \in 1..Len(AsciiHigh) : AsciiHigh[i] = c)]

Ord(c) == OrdTable[c]

IsTextByte(b) == b = 10 \/ (b >= 32 /\ b <= 95) \/ (b >= 97 /\ b <= 126)

Chr(b) == IF b = 10 THEN "\n" ELSE IF b <= 95 THEN AsciiLow[b - 31] ELSE AsciiHigh[b - 96]

AsBytes(s) == [i \in 1..Len(s) |-> Ord(s[i])]

Ok(v) == [ok |-> TRUE, v |-> v]
Err(e) == [ok |-> FALSE, e |-> e]

\* String::from_utf8 on the bytes read
FromUtf8(bytes) ==
  IF \A i \in 1..Len(bytes) : IsTextByte(bytes[i])
  THEN Ok(<<>> \o [i \in 1..Len(bytes) |-> Chr(bytes[i])])
  ELSE Err("stream did not contain valid UTF-8")

EndsWith(s, suffix) ==
  /\ Len(s) >= Len(suffix)
  /\ SubSeq(s, Len(s) - Len(suffix) + 1, Len(s)) = suffix

\* byte-wise lexicographic order of String
RECURSIVE StrLess(_, _)
StrLess(s, t) ==
  IF t = <<>> THEN FALSE
  ELSE IF s = <<>> THEN TRUE
  ELSE IF Ord(Head(s)) # Ord(Head(t)) THEN Ord(Head(s)) < Ord(Head(t))
  ELSE StrLess(Tail(s), Tail(t))

MinStr(S) == CHOOSE s \in S : \A t \in S : t = s \/ StrLess(s, t)

RECURSIVE SortedKeys(_)
SortedKeys(S) ==
  IF S = {} THEN <<>>
  ELSE LET m == MinStr(S) IN <<m>> \o SortedKeys(S \ {m})

RECURSIVE Concat(_)
Concat(ss) == IF ss = <<>> THEN <<>> ELSE Head(ss) \o Concat(Tail(ss))

\* -------------------------------------------------------------- base64
B64Alphabet ==
  << "A", "B", "C", "D", "E", "F", "G", "H", "I", "J", "K", "L", "M", "N", "O", "P",
     "Q", "R", "S", "T", "U", "V", "W", "X", "Y", "Z", "a", "b", "c", "d", "e", "f",
     "g", "h", "i", "j", "k", "l", "m", "n", "o", "p", "q", "r", "s", "t", "u", "v",
     "w", "x", "y", "z", "0", "1", "2", "3", "4", "5", "6", "7", "8", "9", "+", "/" >>

B64Chars == {B64Alphabet[i] : i \in 1..64}

B64Index == [c \in B64Chars |-> (CHOOSE i \in 1..64 : B64Alphabet[i] = c) - 1]

\* the k-th character (1..4) of the group g (0, 1, ...) of three bytes: six
\* bits of the 24, or the padding where the bytes have ended
B64Sextet(bytes, g, k) ==
  LET b1 == bytes[(3 * g) + 1]
      b2 == IF (3 * g) + 2 <= Len(bytes) THEN bytes[(3 * g) + 2] ELSE 0
      b3 == IF (3 * g) + 3 <= Len(bytes) THEN bytes[(3 * g) + 3] ELSE 0
  IN CASE k = 1 -> b1 \div 4
       [] k = 2 -> ((b1 % 4) * 16) + (b2 \div 16)
       [] k = 3 -> ((b2 % 16) * 4) + (b3 \div 64)
       [] k = 4 -> b3 % 64

B64Char(bytes, g, k) ==
  IF (3 * g) + k > Len(bytes) + 1 THEN "=" ELSE B64Alphabet[B64Sextet(bytes, g, k) + 1]

\* base64::encode: the standard alphabet, padded
Base64Encode(bytes) ==
  [j \in 1..(4 * ((Len(bytes) + 2) \div 3)) |-> B64Char(bytes, (j - 1) \div 4, ((j - 1) % 4) + 1)]

StripPadding(s) ==
  IF Len(s) >= 2 /\ s[Len(s)] = "=" /\ s[Len(s) - 1] = "=" THEN SubSeq(s, 1, Len(s) - 2)
  ELSE IF Len(s) >= 1 /\ s[Len(s)] = "=" THEN SubSeq(s, 1, Len(s) - 1)
  ELSE s

\* the k-th byte (0..2) of the group g of four sextets
DecodedByte(x, g, k) ==
  CASE k = 0 -> (x[(4 * g) + 1] * 4) + (x[(4 * g) + 2] \div 16)
    [] k = 1 -> ((x[(4 * g) + 2] % 16) * 16) + (x[(4 * g) + 3] \div 4)
    [] k = 2 -> ((x[(4 * g) + 3] % 4) * 64) + x[(4 * g) + 4]

\* three bytes of every four sextets, one of a last two, two of a last three
DecodeSextets(x) ==
  LET tail == IF Len(x) % 4 = 2 THEN 1 ELSE IF Len(x) % 4 = 3 THEN 2 ELSE 0 IN
  [j \in 1..((3 * (Len(x) \div 4)) + tail) |-> DecodedByte(x, (j - 1) \div 3, (j - 1) % 3)]

Base64Decode(s) ==
  LET body == StripPadding(s) IN
  IF \E i \in 1..Len(body) : body[i] \notin B64Chars THEN Err("Invalid byte")
  ELSE IF Len(body) % 4 = 1 THEN Err("Encoded text cannot have a 6-bit remainder")
  ELSE Ok(DecodeSextets([i \in 1..Len(body) |-> B64Index[body[i]]]))

\* ---------------------------------------------------------------- JSON
\* serde_json::Value; an object is a Map<String, Value>, a BTreeMap: keys are
\* unique and iterate in ascending byte order.
JNull == [t |-> "null"]
JNum(n) == [t |-> "num", n |-> n]
JStr(s) == [t |-> "str", s |-> s]
JArr(a) == [t |-> "arr", a |-> a]
JObj(o) == [t |-> "obj", o |-> o]

EmptyMap == <<>>

MapInsert(o, k, v) == [x \in (DOMAIN o) \cup {k} |-> IF x = k THEN v ELSE o[x]]

MapRemove(o, k) == [x \in (DOMAIN o) \ {k} |-> o[x]]

Digits == <<"0", "1", "2", "3", "4", "5", "6", "7", "8", "9">>

IsDigit(c) == \E d \in 1..10 : Digits[d] = c

DigitVal(c) == (CHOOSE d \in 1..10 : Digits[d] = c) - 1

RECURSIVE NumToStr(_)
NumToStr(n) == IF n < 10 THEN <<Digits[n + 1]>> ELSE NumToStr(n \div 10) \o <<Digits[(n % 10) + 1]>>

RECURSIVE Indent(_)
Indent(level) == IF level = 0 THEN <<>> ELSE <<" ", " ">> \o Indent(level - 1)

Quoted(s) == <<"\"">> \o s \o <<"\"">>

\* serde_json::to_writer_pretty / to_string_pretty (PrettyFormatter, two spaces)
RECURSIVE ToStringPretty(_, _)
RECURSIVE PrettyMembers(_, _, _)
RECURSIVE PrettyElements(_, _, _)
ToStringPretty(v, level) ==
  CASE v.t = "null" -> <<"n", "u", "l", "l">>
    [] v.t = "num" -> NumToStr(v.n)
    [] v.t = "str" -> Quoted(v.s)
    [] v.t = "arr" ->
         IF v.a = <<>> THEN <<"[", "]">>
         ELSE <<"[">> \o PrettyElements(v.a, 1, level + 1)
              \o <<"\n">> \o Indent(level) \o <<"]">>
    [] v.t = "obj" ->
         IF DOMAIN v.o = {} THEN <<"{", "}">>
         ELSE <<"{">> \o PrettyMembers(v.o, SortedKeys(DOMAIN v.o), level + 1)
              \o <<"\n">> \o Indent(level) \o <<"}">>
PrettyMembers(o, keys, level) ==
  IF keys = <<>> THEN <<>>
  ELSE <<"\n">> \o Indent(level) \o Quoted(Head(keys)) \o <<":", " ">>
       \o ToStringPretty(o[Head(keys)], level)
       \o (IF Len(keys) > 1 THEN <<",">> ELSE <<>>)
       \o PrettyMembers(o, Tail(keys), level)
PrettyElements(a, i, level) ==
  IF i > Len(a) THEN <<>>
  ELSE <<"\n">> \o Indent(level) \o ToStringPretty(a[i], level)
       \o (IF i < Len(a) THEN <<",">> ELSE <<>>)
       \o PrettyElements(a, i + 1, level)

\* impl Display for Value / serde_json::to_string (CompactFormatter)
RECURSIVE ValueToString(_)
RECURSIVE CompactMembers(_, _)
RECURSIVE CompactElements(_, _)
ValueToString(v) ==
  CASE v.t = "null" -> <<"n", "u", "l", "l">>
    [] v.t = "num" -> NumToStr(v.n)
    [] v.t = "str" -> Quoted(v.s)
    [] v.t = "arr" -> <<"[">> \o CompactElements(v.a, 1) \o <<"]">>
    [] v.t = "obj" -> <<"{">> \o CompactMembers(v.o, SortedKeys(DOMAIN v.o)) \o <<"}">>
CompactMembers(o, keys) ==
  IF keys = <<>> THEN <<>>
  ELSE Quoted(Head(keys)) \o <<":">> \o ValueToString(o[Head(keys)])
       \o (IF Len(keys) > 1 THEN <<",">> ELSE <<>>)
       \o CompactMembers(o, Tail(keys))
CompactElements(a, i) ==
  IF i > Len(a) THEN <<>>
  ELSE ValueToString(a[i]) \o (IF i < Len(a) THEN <<",">> ELSE <<>>)
       \o CompactElements(a, i + 1)

\* The parser: a position in the text, a value or an error. Objects are read
\* member by member, each inserted in the map as read (a repeated key keeps
\* the last value). members keeps the keys in the order read.
PErr(i) == [ok |-> FALSE, pos |-> i]
POk(v, i) == [ok |-> TRUE, v |-> v, pos |-> i]

IsWs(c) == c = " " \/ c = "\n"

RECURSIVE SkipWs(_, _)
SkipWs(s, i) == IF i <= Len(s) /\ IsWs(s[i]) THEN SkipWs(s, i + 1) ELSE i

\* the index of the closing quote of a string whose first character is at i; 0
\* if the text ends, or a backslash or a line feed comes, before one (the text
\* is scanned sixteen characters at a time)
RECURSIVE StringEnd(_, _)
StringEnd(s, i) ==
  LET hi == IF i + 15 <= Len(s) THEN i + 15 ELSE Len(s)
      stops == {j \in i..hi : s[j] = "\"" \/ s[j] = "\\" \/ s[j] = "\n"}
  IN IF i > Len(s) THEN 0
     ELSE IF stops = {} THEN StringEnd(s, hi + 1)
     ELSE IF s[CHOOSE j \in stops : \A k \in stops : j <= k] = "\""
          THEN CHOOSE j \in stops : \A k \in stops : j <= k
          ELSE 0

RECURSIVE NumberEnd(_, _)
NumberEnd(s, i) == IF i <= Len(s) /\ IsDigit(s[i]) THEN NumberEnd(s, i + 1) ELSE i

RECURSIVE NumberVal(_, _, _)
NumberVal(s, i, j) == IF j < i THEN 0 ELSE NumberVal(s, i, j - 1) * 10 + DigitVal(s[j])

RECURSIVE ParseValue(_, _)
RECURSIVE ParseMembers(_, _, _, _)
RECURSIVE ParseElements(_, _, _)
ParseValue(s, i0) ==
  LET i == SkipWs(s, i0) IN
  IF i > Len(s) THEN PErr(i)
  ELSE IF s[i] = "{" THEN
    LET j == SkipWs(s, i + 1) IN
    IF j <= Len(s) /\ s[j] = "}" THEN POk([t |-> "obj", o |-> EmptyMap, members |-> <<>>], j + 1)
    ELSE ParseMembers(s, j, EmptyMap, <<>>)
  ELSE IF s[i] = "[" THEN
    LET j == SkipWs(s, i + 1) IN
    IF j <= Len(s) /\ s[j] = "]" THEN POk(JArr(<<>>), j + 1)
    ELSE ParseElements(s, j, <<>>)
  ELSE IF s[i] = "\"" THEN
    LET e == StringEnd(s, i + 1) IN
    IF e = 0 THEN PErr(i) ELSE POk(JStr(SubSeq(s, i + 1, e - 1)), e + 1)
  ELSE IF IsDigit(s[i]) THEN
    LET e == NumberEnd(s, i) IN POk(JNum(NumberVal(s, i, e - 1)), e)
  ELSE IF i + 3 <= Len(s) /\ SubSeq(s, i, i + 3) = <<"n", "u", "l", "l">> THEN POk(JNull, i + 4)
  ELSE PErr(i)
ParseMembers(s, i0, acc, order) ==
  LET i == SkipWs(s, i0) IN
  IF i > Len(s) \/ s[i] # "\"" THEN PErr(i)
  ELSE
    LET e == StringEnd(s, i + 1) IN
    IF e = 0 THEN PErr(i)
    ELSE
      LET key == SubSeq(s, i + 1, e - 1)
          c == SkipWs(s, e + 1)
      IN
      IF c > Len(s) \/ s[c] # ":" THEN PErr(c)
      ELSE
        LET r == ParseValue(s, c + 1) IN
        IF ~r.ok THEN r
        ELSE
          LET n == SkipWs(s, r.pos)
              acc2 == MapInsert(acc, key, r.v)
              order2 == Append(order, key)
          IN
          IF n > Len(s) THEN PErr(n)
          ELSE IF s[n] = "," THEN ParseMembers(s, n + 1, acc2, order2)
          ELSE IF s[n] = "}" THEN POk([t |-> "obj", o |-> acc2, members |-> order2], n + 1)
          ELSE PErr(n)
ParseElements(s, i0, acc) ==
  LET r == ParseValue(s, i0) IN
  IF ~r.ok THEN r
  ELSE
    LET n == SkipWs(s, r.pos) IN
    IF n > Len(s) THEN PErr(n)
    ELSE IF s[n] = "," THEN ParseElements(s, n + 1, Append(acc, r.v))
    ELSE IF s[n] = "]" THEN POk(JArr(Append(acc, r.v)), n + 1)
    ELSE PErr(n)

\* the Value of a parsed document: the maps, without the order of the members
RECURSIVE ToValue(_)
ToValue(p) ==
  CASE p.t = "obj" -> JObj([k \in DOMAIN p.o |-> ToValue(p.o[k])])
    [] p.t = "arr" -> JArr([i \in 1..Len(p.a) |-> ToValue(p.a[i])])
    [] OTHER -> p

\* the whole text is one value (trailing characters are an error)
DocumentEnd(s, r) ==
  IF ~r.ok THEN r
  ELSE IF SkipWs(s, r.pos) <= Len(s) THEN PErr(r.pos)
  ELSE r

ParseDocument(s) == DocumentEnd(s, ParseValue(s, 1))

ValueOfParse(r) == IF r.ok THEN Ok(ToValue(r.v)) ELSE Err("json syntax error")

\* serde_json::from_str::<Value>
FromStr(s) == ValueOfParse(ParseDocument(s))

ObjectOfValue(r) ==
  IF ~r.ok THEN r
  ELSE IF r.v.t # "obj" THEN Err("invalid type: expected a map")
  ELSE Ok(r.v.o)

\* serde_json::from_str::<Object>: the document must be an object
ObjectFromStr(s) == ObjectOfValue(FromStr(s))

\* ----------------------------------------------------------- constants
CODE_DIR_NAME == <<"c", "o", "d", "e">>
BUILD_CONFIG_FILE_NAME == <<".", "b", "u", "i", "l", "d">>
WASM_FILE_EXTENSION == <<"w", "a", "s", "m">>
DEFAULT_BUNDLE_FILE_NAME == <<"b", "u", "n", "d", "l", "e", ".", "j", "s", "o", "n">>
META_FILE_ID == <<"f", "i", "l", "e">>
META_DIR_ID == <<"d", "i", "r">>
META_BIN_ID == <<"b", "i", "n">>
META_SECTION_NAME == <<"_", "_", "M", "E", "T", "A", "_", "_">>
META_TREE_SECTION_NAME == <<"t", "r", "e", "e">>
META_CONFIG_SECTION_NAME == <<"c", "o", "n", "f", "i", "g", "_", "f", "i", "l", "e">>
JSON_SUFFIX == <<".", "j", "s", "o", "n">>

\* ------------------------------------------------------- the file system
\* A directory is a map from names to nodes; a path is a sequence of names
\* below the directory the command runs in.
FileNode(bytes) == [k |-> "file", bytes |-> bytes]
DirNode(ch) == [k |-> "dir", ch |-> ch]
EmptyDir == <<>>
NoNode == [k |-> "none"]

RECURSIVE NodeAt(_, _)
NodeAt(dir, path) ==
  IF path = <<>> THEN DirNode(dir)
  ELSE IF Head(path) \notin DOMAIN dir THEN NoNode
  ELSE IF Len(path) = 1 THEN dir[Head(path)]
  ELSE IF dir[Head(path)].k # "dir" THEN NoNode
  ELSE NodeAt(dir[Head(path)].ch, Tail(path))

IsFile(dir, path) == NodeAt(dir, path).k = "file"
IsDir(dir, path) == NodeAt(dir, path).k = "dir"
Exists(dir, path) == NodeAt(dir, path).k # "none"

\* the tree with `node` at `path`, whose parent is a directory of the tree
RECURSIVE PutAt(_, _, _)
PutAt(dir, path, node) ==
  IF Len(path) = 1 THEN MapInsert(dir, Head(path), node)
  ELSE MapInsert(dir, Head(path), DirNode(PutAt(dir[Head(path)].ch, Tail(path), node)))

\* File::create(path)?.write_all(bytes): a directory at the path is an error,
\* an existing file is truncated
FileCreateWrite(dir, path, bytes) ==
  IF IsDir(dir, path) THEN Err("Is a directory")
  ELSE IF ~IsDir(dir, SubSeq(path, 1, Len(path) - 1)) THEN Err("No such file or directory")
  ELSE Ok(PutAt(dir, path, FileNode(bytes)))

\* fs::create_dir(path): anything at the path is an error
CreateDir(dir, path) ==
  IF Exists(dir, path) THEN Err("File exists")
  ELSE IF ~IsDir(dir, SubSeq(path, 1, Len(path) - 1)) THEN Err("No such file or directory")
  ELSE Ok(PutAt(dir, path, DirNode(EmptyDir)))

\* the walker's standard filters leave out the entries whose name starts with a dot
Hidden(name) == Len(name) >= 1 /\ name[1] = "."

RECURSIVE LastDot(_, _)
LastDot(s, i) == IF i = 0 THEN 0 ELSE IF s[i] = "." THEN i ELSE LastDot(s, i - 1)

\* Path::with_extension on the last component: the extension, if the name has
\* one, is replaced
WithExtension(name, ext) ==
  LET d == LastDot(name, Len(name))
      stem == IF d <= 1 THEN name ELSE SubSeq(name, 1, d - 1)
  IN stem \o <<".">> \o ext

\* ------------------------------------------------------------ the build
\* util::run_cmd(base_path, bin, args): runs the command in the directory and
\* is an error when it cannot be launched or exits non-zero. Of the commands
\* of the model, true and echo exit 0 and false exits 1.
CmdTrue == <<"t", "r", "u", "e">>
CmdEcho == <<"e", "c", "h", "o">>
CmdFalse == <<"f", "a", "l", "s", "e">>

RunCmd(base_path, bin, args) ==
  IF bin \in {CmdTrue, CmdEcho} THEN Ok(0) ELSE Err("command failed")

\* util::file_name_string(path): the last component of the path
FileNameString(path) == path[Len(path)]

StepsKey == <<"s", "t", "e", "p", "s">>
ArtifactKey == <<"a", "r", "t", "i", "f", "a", "c", "t">>

IsStringArray(v) == v.t = "arr" /\ \A i \in 1..Len(v.a) : v.a[i].t = "str"

\* #[derive(Deserialize)] struct Build { steps: HashMap<String, Vec<String>>, artifact: PathBuf }
\* read from the parsed document p; `declared` keeps the commands in the order
\* the document lists them, which the HashMap does not
BuildDeserialize(p) ==
  IF p.t # "obj" THEN Err("invalid type")
  ELSE IF StepsKey \notin DOMAIN p.o THEN Err("missing field steps")
  ELSE IF ArtifactKey \notin DOMAIN p.o THEN Err("missing field artifact")
  ELSE IF p.o[StepsKey].t # "obj" THEN Err("invalid type")
  ELSE IF \E c \in DOMAIN p.o[StepsKey].o : ~IsStringArray(p.o[StepsKey].o[c])
       THEN Err("invalid type")
  ELSE IF p.o[ArtifactKey].t # "str" THEN Err("invalid type")
  ELSE Ok([steps |-> [c \in DOMAIN p.o[StepsKey].o |->
                        [i \in 1..Len(p.o[StepsKey].o[c].a) |-> p.o[StepsKey].o[c].a[i].s]],
           artifact |-> p.o[ArtifactKey].s,
           declared |-> p.o[StepsKey].members])

BuildOfParse(r) == IF ~r.ok THEN Err("json syntax error") ELSE BuildDeserialize(r.v)

\* Build::from_file: File::open(path)?, serde_json::from_reader(&file)?
BuildFromFile(node) ==
  IF node.k # "file" THEN Err("Is a directory")
  ELSE IF ~FromUtf8(node.bytes).ok THEN Err("json syntax error")
  ELSE BuildOfParse(ParseDocument(FromUtf8(node.bytes).v))

\* Build::run reading the descriptor in place of the artifact
BuildArtifactOther(dir, base_path, artifact) ==
  LET artifact_path == Append(base_path, BUILD_CONFIG_FILE_NAME) IN
  IF Exists(dir, artifact_path) /\ IsFile(dir, artifact_path)
  THEN Ok(Base64Encode(NodeAt(dir, artifact_path).bytes))
  ELSE Err("artifact path either doesn't point to a file or doesn't exist")

\* Build::run after its loop: the artifact is read and encoded
BuildArtifact(dir, base_path, artifact) ==
  LET artifact_path == Append(base_path, artifact) IN
  IF Exists(dir, artifact_path) /\ IsFile(dir, artifact_path)
  THEN Ok(Base64Encode(NodeAt(dir, artifact_path).bytes))
  ELSE Err("artifact path either doesn't point to a file or doesn't exist")

NoBuild == [on |-> FALSE]

\* ------------------------------------------------------------- the pack
NoName == <<>>

\* the entries of the directory the walker yields (max_depth 1, the directory
\* itself skipped)
WalkRoot(ch) == {n \in DOMAIN ch : ~Hidden(n)}

JsonFiles(ch) == {n \in WalkRoot(ch) : ch[n].k = "file" /\ EndsWith(n, JSON_SUFFIX)}

\* maybe_json_file_path: the first file of the enumeration whose name ends in
\* .json. The walker does not sort, so it is any of them.
ConfigChoices(ch) == IF JsonFiles(ch) = {} THEN {NoName} ELSE JsonFiles(ch)

\* the locals of a call of bundle_recurse
PackFrame(path, nodes, main_tree, meta_section) ==
  [path |-> path, nodes |-> nodes, main_tree |-> main_tree,
   meta_tree |-> EmptyMap, meta_section |-> meta_section, build |-> NoBuild]

\* the frame seeded with the fields of the config file, or its error
SeededFrame(path, all_nodes, cfg, obj) ==
  IF ~obj.ok THEN obj
  ELSE Ok(PackFrame(path, all_nodes, obj.v,
                    MapInsert(EmptyMap, META_CONFIG_SECTION_NAME, JStr(cfg))))

\* bundle_recurse up to its loop: the frame of the level, or the error
BundleEnter(ch, path, cfg) ==
  IF cfg = NoName THEN Ok(PackFrame(path, WalkRoot(ch), EmptyMap, EmptyMap))
  ELSE IF ~FromUtf8(ch[cfg].bytes).ok THEN FromUtf8(ch[cfg].bytes)
  ELSE SeededFrame(path, WalkRoot(ch) \ {cfg}, cfg,
                   ObjectFromStr(FromUtf8(ch[cfg].bytes).v))

\* bundle_recurse attaching the meta section whatever strip_meta says
BundleReturnKeep(f, strip_meta) ==
  LET meta_section ==
        IF DOMAIN f.meta_tree # {}
        THEN MapInsert(f.meta_section, META_TREE_SECTION_NAME, JObj(f.meta_tree))
        ELSE f.meta_section
  IN
  IF DOMAIN meta_section # {}
  THEN MapInsert(f.main_tree, META_SECTION_NAME, JObj(meta_section))
  ELSE f.main_tree

\* bundle_recurse attaching the meta section without the two is_empty tests
BundleReturnAlways(f, strip_meta) ==
  IF strip_meta THEN f.main_tree
  ELSE MapInsert(f.main_tree, META_SECTION_NAME,
         JObj(MapInsert(f.meta_section, META_TREE_SECTION_NAME, JObj(f.meta_tree))))

\* bundle_recurse after its loop: the object the level returns
BundleReturn(f, strip_meta) ==
  IF strip_meta THEN f.main_tree
  ELSE
    LET meta_section ==
          IF DOMAIN f.meta_tree # {}
          THEN MapInsert(f.meta_section, META_TREE_SECTION_NAME, JObj(f.meta_tree))
          ELSE f.meta_section
    IN
    IF DOMAIN meta_section # {}
    THEN MapInsert(f.main_tree, META_SECTION_NAME, JObj(meta_section))
    ELSE f.main_tree

\* ------------------------------------------------------------ the state
VARIABLES
  fs,        \* the tree under the directory package runs in
  extBundle, \* the bytes of the file at the -o path outside the tree, or NoFile
  dest,      \* the tree under the directory unpack writes to
  strip,     \* package --strip-meta
  output,    \* "default": no -o, the bundle is ./bundle.json; "external": -o
  pc,        \* "idle", "packing", "unpacking", "done"
  packs,     \* the package runs that have ended
  pstack,    \* the calls of bundle_recurse in progress, the innermost last
  pres,      \* what the last package run returned
  ustack,    \* the calls of unpack_recurse in progress, the innermost last
  ures,      \* what unpack returned
  builds,    \* per built directory: the commands declared, the artifact, the commands
             \* run, the state
  configs,   \* the paths of the files taken as a level's config file
  returned,  \* per level that returned: its object and its meta_tree
  docs,      \* the bundle documents written, in order
  wlog,      \* what unpack wrote, in order: the level, the entry, its value, the path
  tree0      \* the tree package first ran on

vars == << fs, extBundle, dest, strip, output, pc, packs, pstack, pres, ustack, ures,
           builds, configs, returned, docs, wlog, tree0 >>

NoFile == [k |-> "none"]
NoResult == [ok |-> FALSE, e |-> "not run"]

Top(stack) == stack[Len(stack)]
Pop(stack) == SubSeq(stack, 1, Len(stack) - 1)
SetTop(stack, f) == [stack EXCEPT ![Len(stack)] = f]

\* ---------------------------------------------------- package, step by step
\* Packager::run creating the output file before it calls bundle_recurse
PackFailTruncated(e) ==
  /\ pc' = "idle"
  /\ packs' = packs + 1
  /\ pstack' = <<>>
  /\ pres' = Err(e)
  /\ extBundle' = FileNode(<<>>)
  /\ UNCHANGED << fs, docs >>

\* an error leaves bundle_recurse and Packager::run through every ?
PackFail(e) ==
  /\ pc' = "idle"
  /\ packs' = packs + 1
  /\ pstack' = <<>>
  /\ pres' = Err(e)
  /\ UNCHANGED << fs, extBundle, docs >>

\* a call of bundle_recurse reaches its loop, or fails
Entered(callers, r) ==
  IF r.ok
  THEN /\ pc' = "packing"
       /\ pstack' = Append(callers, r.v)
       /\ pres' = NoResult
       /\ UNCHANGED << packs, fs, extBundle, docs >>
  ELSE PackFail(r.e)

\* Packager::run calls bundle_recurse on "."
PackStart(limit) ==
  /\ pc = "idle"
  /\ packs < limit
  /\ \E cfg \in ConfigChoices(fs) :
       /\ configs' = IF cfg = NoName THEN configs ELSE configs \cup {<<cfg>>}
       /\ Entered(<<>>, BundleEnter(fs, <<>>, cfg))
  /\ builds' = <<>>
  /\ returned' = <<>>
  /\ UNCHANGED << dest, strip, output, ustack, ures, wlog, tree0 >>

\* the loop of bundle_recurse on a file
PackFile ==
  /\ pc = "packing"
  /\ ~Top(pstack).build.on
  /\ \E n \in Top(pstack).nodes :
       LET f == Top(pstack)
           node == NodeAt(fs, Append(f.path, n))
           file_name == FileNameString(Append(f.path, n))
           encoded_content == Base64Encode(node.bytes)
       IN
       /\ node.k = "file"
       /\ pstack' = SetTop(pstack,
            [f EXCEPT !.nodes = f.nodes \ {n},
                      !.meta_tree = MapInsert(f.meta_tree, file_name, JStr(META_FILE_ID)),
                      !.main_tree = MapInsert(f.main_tree, file_name, JStr(encoded_content))])
  /\ UNCHANGED << fs, extBundle, dest, strip, output, pc, packs, pres, ustack, ures,
                  builds, configs, returned, docs, wlog, tree0 >>

HasBuildConfig(node) == node.k = "dir" /\ BUILD_CONFIG_FILE_NAME \in DOMAIN node.ch

\* the descriptor is read: the build of the directory starts, or package fails
BuildLoaded(f, n, build) ==
  LET file_name == FileNameString(Append(f.path, n)) IN
  IF build.ok
  THEN /\ pstack' = SetTop(pstack,
            [f EXCEPT !.nodes = f.nodes \ {n},
                      !.meta_tree = MapInsert(f.meta_tree, file_name, JStr(META_BIN_ID)),
                      !.build = [on |-> TRUE, name |-> file_name,
                                 steps |-> build.v.steps,
                                 todo |-> DOMAIN build.v.steps,
                                 artifact |-> build.v.artifact]])
       /\ builds' = MapInsert(builds, Append(f.path, n),
            [declared |-> build.v.declared, artifact |-> build.v.artifact,
             ran |-> <<>>, state |-> "running"])
       /\ UNCHANGED << pc, packs, pres, fs, extBundle, docs >>
  ELSE /\ PackFail(build.e)
       /\ UNCHANGED builds

\* the loop on a directory that holds a .build file: Build::from_file
PackBuildStart ==
  /\ pc = "packing"
  /\ ~Top(pstack).build.on
  /\ \E n \in Top(pstack).nodes :
       /\ HasBuildConfig(NodeAt(fs, Append(Top(pstack).path, n)))
       /\ BuildLoaded(Top(pstack), n,
            BuildFromFile(NodeAt(fs, Append(Top(pstack).path, n)).ch[BUILD_CONFIG_FILE_NAME]))
  /\ UNCHANGED << dest, strip, output, ustack, ures, configs, returned, wlog, tree0 >>

\* one turn of the loop of Build::run: the HashMap yields its entries in an
\* order of its own
BuildStep ==
  /\ pc = "packing"
  /\ Top(pstack).build.on
  /\ \E bin \in Top(pstack).build.todo :
       LET f == Top(pstack)
           base_path == Append(f.path, f.build.name)
           r == RunCmd(base_path, bin, f.build.steps[bin])
           ran == Append(builds[base_path].ran, bin)
       IN
       IF r.ok
       THEN /\ pstack' = SetTop(pstack, [f EXCEPT !.build.todo = f.build.todo \ {bin}])
            /\ builds' = [builds EXCEPT ![base_path].ran = ran]
            /\ UNCHANGED << pc, packs, pres, fs, extBundle, docs >>
       ELSE /\ PackFail(r.e)
            /\ builds' = [builds EXCEPT ![base_path].ran = ran, ![base_path].state = "failed"]
  /\ UNCHANGED << dest, strip, output, ustack, ures, configs, returned, wlog, tree0 >>

\* Build::run after the loop, and the insert of { "code": wasm }
BuildFinish ==
  /\ pc = "packing"
  /\ Top(pstack).build.on
  /\ Top(pstack).build.todo = {}
  /\ LET f == Top(pstack)
         base_path == Append(f.path, f.build.name)
         wasm == BuildArtifact(fs, base_path, f.build.artifact)
     IN
     IF wasm.ok
     THEN /\ pstack' = SetTop(pstack,
               [f EXCEPT !.build = NoBuild,
                         !.main_tree = MapInsert(f.main_tree, f.build.name,
                                         JObj(MapInsert(EmptyMap, CODE_DIR_NAME, JStr(wasm.v))))])
          /\ builds' = [builds EXCEPT ![base_path].state = "ok"]
          /\ UNCHANGED << pc, packs, pres, fs, extBundle, docs >>
     ELSE /\ PackFail(wasm.e)
          /\ builds' = [builds EXCEPT ![base_path].state = "failed"]
  /\ UNCHANGED << dest, strip, output, ustack, ures, configs, returned, wlog, tree0 >>

\* the loop on a directory without a .build file: the recursive call
PackDirEnter ==
  /\ pc = "packing"
  /\ ~Top(pstack).build.on
  /\ \E n \in Top(pstack).nodes :
       LET f == Top(pstack)
           node == NodeAt(fs, Append(f.path, n))
           file_name == FileNameString(Append(f.path, n))
       IN
       /\ node.k = "dir"
       /\ ~HasBuildConfig(node)
       /\ \E cfg \in ConfigChoices(node.ch) :
            /\ configs' = IF cfg = NoName THEN configs
                          ELSE configs \cup {Append(Append(f.path, n), cfg)}
            /\ Entered(SetTop(pstack,
                         [f EXCEPT !.nodes = f.nodes \ {n},
                                   !.meta_tree = MapInsert(f.meta_tree, file_name,
                                                           JStr(META_DIR_ID))]),
                       BundleEnter(node.ch, Append(f.path, n), cfg))
  /\ UNCHANGED << dest, strip, output, ustack, ures, builds, returned, wlog, tree0 >>

\* a recursive call returns: main_tree.insert(file_name, sub_tree_content)
PackReturn ==
  /\ pc = "packing"
  /\ Len(pstack) > 1
  /\ ~Top(pstack).build.on
  /\ Top(pstack).nodes = {}
  /\ LET f == Top(pstack)
         parent == pstack[Len(pstack) - 1]
         sub_tree_content == BundleReturn(f, strip)
     IN
     /\ pstack' = SetTop(Pop(pstack),
          [parent EXCEPT !.main_tree =
             MapInsert(parent.main_tree, FileNameString(f.path), JObj(sub_tree_content))])
     /\ returned' = MapInsert(returned, f.path,
          [obj |-> sub_tree_content, meta_tree |-> f.meta_tree])
  /\ UNCHANGED << fs, extBundle, dest, strip, output, pc, packs, pres, ustack, ures,
                  builds, configs, docs, wlog, tree0 >>

\* File::create(&output) and to_writer_pretty: the document is in the file,
\* or the file could not be created
Written(document, out_file) ==
  IF output = "external"
  THEN /\ extBundle' = FileNode(document)
       /\ docs' = Append(docs, document)
       /\ pres' = Ok(0)
       /\ UNCHANGED fs
  ELSE IF out_file.ok
  THEN /\ fs' = out_file.v
       /\ docs' = Append(docs, document)
       /\ pres' = Ok(0)
       /\ UNCHANGED extBundle
  ELSE /\ pres' = Err(out_file.e)
       /\ UNCHANGED << fs, extBundle, docs >>

WriteBundle(document) ==
  Written(document, FileCreateWrite(fs, <<DEFAULT_BUNDLE_FILE_NAME>>, document))

\* Packager::run after bundle_recurse: File::create(&output), to_writer_pretty
PackFinish ==
  /\ pc = "packing"
  /\ Len(pstack) = 1
  /\ ~Top(pstack).build.on
  /\ Top(pstack).nodes = {}
  /\ returned' = MapInsert(returned, Top(pstack).path,
       [obj |-> BundleReturn(Top(pstack), strip), meta_tree |-> Top(pstack).meta_tree])
  /\ WriteBundle(AsBytes(ToStringPretty(JObj(BundleReturn(Top(pstack), strip)), 0)))
  /\ pc' = "idle"
  /\ packs' = packs + 1
  /\ pstack' = <<>>
  /\ UNCHANGED << dest, strip, output, ustack, ures, builds, configs, wlog, tree0 >>

\* ----------------------------------------------------- unpack, step by step
IncompatibleMeta == "incompatible meta section"

\* unpack_recurse up to its loop: the reserved key is removed, and the tree of
\* the meta section, if the two are objects, is what the loop runs over (a
\* BTreeMap: in ascending order of the names)
UnpackEnter(obj0, to) ==
  LET has_meta == META_SECTION_NAME \in DOMAIN obj0 /\ obj0[META_SECTION_NAME].t = "obj"
      obj == MapRemove(obj0, META_SECTION_NAME)
      main_meta_obj == IF has_meta THEN obj0[META_SECTION_NAME].o ELSE EmptyMap
      has_tree == /\ META_TREE_SECTION_NAME \in DOMAIN main_meta_obj
                  /\ main_meta_obj[META_TREE_SECTION_NAME].t = "obj"
      tree_meta_obj == IF has_tree THEN main_meta_obj[META_TREE_SECTION_NAME].o ELSE EmptyMap
  IN [to |-> to, obj |-> obj, has_meta |-> has_meta,
      tree |-> tree_meta_obj, todo |-> SortedKeys(DOMAIN tree_meta_obj),
      meta |-> MapRemove(main_meta_obj, META_TREE_SECTION_NAME)]

\* unpack removing what it wrote when it fails
UnpackFailRollback(e) ==
  /\ pc' = "done"
  /\ ures' = Err(e)
  /\ ustack' = <<>>
  /\ dest' = EmptyDir
  /\ UNCHANGED wlog

\* an error leaves unpack_recurse and unpack through every ?
UnpackFail(e) ==
  /\ pc' = "done"
  /\ ures' = Err(e)
  /\ ustack' = <<>>
  /\ UNCHANGED << dest, wlog >>

\* the bundle file unpack is given: the one package wrote
BundlePathNode ==
  IF output = "external" THEN extBundle ELSE NodeAt(fs, <<DEFAULT_BUNDLE_FILE_NAME>>)

\* the bundle is parsed: unpack_recurse is called on it, or unpack fails
BundleRead(bundle_content) ==
  IF ~bundle_content.ok THEN UnpackFail(bundle_content.e)
  ELSE /\ pc' = "unpacking"
       /\ ustack' = <<UnpackEnter(bundle_content.v, <<>>)>>
       /\ UNCHANGED << ures, dest, wlog >>

\* unpack, up to its call of unpack_recurse
UnpackStart(after) ==
  /\ pc = "idle"
  /\ packs >= after
  /\ IF BundlePathNode.k # "file"
     THEN UnpackFail("argument path doesn't point ot a file")
     ELSE IF ~FromUtf8(BundlePathNode.bytes).ok
     THEN UnpackFail(FromUtf8(BundlePathNode.bytes).e)
     ELSE BundleRead(ObjectFromStr(FromUtf8(BundlePathNode.bytes).v))
  /\ UNCHANGED << fs, extBundle, strip, output, packs, pstack, pres, builds, configs,
                  returned, docs, tree0 >>

\* the entry the loop of the innermost call is at
MetaEntry == Head(Top(ustack).todo)
MetaValue == Top(ustack).tree[MetaEntry]
EntryPresent == MetaEntry \in DOMAIN Top(ustack).obj
Entry == Top(ustack).obj[MetaEntry]

InLoop == pc = "unpacking" /\ Top(ustack).todo # <<>>

\* the frame once the loop has taken the entry: obj.remove(&meta_entry)
Taken(f) == [f EXCEPT !.todo = Tail(f.todo), !.obj = MapRemove(f.obj, Head(f.todo))]

KindIs(id) == MetaValue.t = "str" /\ MetaValue.s = id

Logged(kind, path) ==
  Append(wlog, [to |-> Top(ustack).to, entry |-> MetaEntry, kind |-> kind, path |-> path,
                value |-> Entry])

UnpackFrame == UNCHANGED << fs, extBundle, strip, output, packs, pstack, pres, builds,
                            configs, returned, docs, tree0 >>

\* META_FILE_ID if entry.is_string()
UnpackFile ==
  /\ InLoop
  /\ EntryPresent
  /\ KindIs(META_FILE_ID)
  /\ Entry.t = "str"
  /\ LET base64_content == Entry.s
         content == Base64Decode(base64_content)
         file_path == Append(Top(ustack).to, MetaEntry)
         written == FileCreateWrite(dest, file_path, content.v)
     IN
     IF ~content.ok THEN UnpackFail(content.e)
     ELSE IF ~written.ok THEN UnpackFail(written.e)
     ELSE /\ dest' = written.v
          /\ wlog' = Logged("file", file_path)
          /\ ustack' = SetTop(ustack, Taken(Top(ustack)))
          /\ UNCHANGED << pc, ures >>
  /\ UnpackFrame

\* entry[&meta_entry]: the member of the object under the key, Null without one
IndexValue(v, key) == IF v.t = "obj" /\ key \in DOMAIN v.o THEN v.o[key] ELSE JNull

\* to.join(meta_entry).with_extension(WASM_FILE_EXTENSION)
BinFilePath(to, meta_entry) == Append(to, WithExtension(meta_entry, WASM_FILE_EXTENSION))

\* the text the bin arm decodes
BinContent(entry, meta_entry) == ValueToString(IndexValue(entry, meta_entry))

\* META_BIN_ID if entry.is_object()
UnpackBin ==
  /\ InLoop
  /\ EntryPresent
  /\ KindIs(META_BIN_ID)
  /\ Entry.t = "obj"
  /\ LET base64_content == BinContent(Entry, MetaEntry)
         content == Base64Decode(base64_content)
         file_path == BinFilePath(Top(ustack).to, MetaEntry)
         written == FileCreateWrite(dest, file_path, content.v)
     IN
     IF ~content.ok THEN UnpackFail(content.e)
     ELSE IF ~written.ok THEN UnpackFail(written.e)
     ELSE /\ dest' = written.v
          /\ wlog' = Logged("bin", file_path)
          /\ ustack' = SetTop(ustack, Taken(Top(ustack)))
          /\ UNCHANGED << pc, ures >>
  /\ UnpackFrame

\* META_DIR_ID if entry.is_object()
UnpackDir ==
  /\ InLoop
  /\ EntryPresent
  /\ KindIs(META_DIR_ID)
  /\ Entry.t = "obj"
  /\ LET dir_path == Append(Top(ustack).to, MetaEntry)
         created == CreateDir(dest, dir_path)
     IN
     IF ~created.ok THEN UnpackFail(created.e)
     ELSE /\ dest' = created.v
          /\ wlog' = Logged("dir", dir_path)
          /\ ustack' = Append(SetTop(ustack, Taken(Top(ustack))), UnpackEnter(Entry.o, dir_path))
          /\ UNCHANGED << pc, ures >>
  /\ UnpackFrame

\* the value of the entry has the shape its kind declares
ShapeMatches ==
  /\ MetaValue.t = "str"
  /\ \/ MetaValue.s = META_FILE_ID /\ Entry.t = "str"
     \/ MetaValue.s = META_BIN_ID /\ Entry.t = "obj"
     \/ MetaValue.s = META_DIR_ID /\ Entry.t = "obj"

\* the loop going on to the next entry in place of the ok_or_else and the bails
UnpackIncompatibleSkip ==
  /\ InLoop
  /\ IF EntryPresent THEN ~ShapeMatches ELSE TRUE
  /\ ustack' = SetTop(ustack, Taken(Top(ustack)))
  /\ UNCHANGED << pc, ures, dest, wlog >>
  /\ UnpackFrame

\* ok_or_else on the missing entry, the _ arm and the else of the if let
UnpackIncompatible ==
  /\ InLoop
  /\ IF EntryPresent THEN ~ShapeMatches ELSE TRUE
  /\ UnpackFail(IncompatibleMeta)
  /\ UnpackFrame

\* unpack_recurse after its loop: the config file, then the return
UnpackReturn ==
  /\ pc = "unpacking"
  /\ Top(ustack).todo = <<>>
  /\ LET f == Top(ustack)
         has_config == f.has_meta /\ META_CONFIG_SECTION_NAME \in DOMAIN f.meta
         config_file_meta == f.meta[META_CONFIG_SECTION_NAME]
         file_path == Append(f.to, config_file_meta.s)
         dna_file == FileCreateWrite(dest, file_path, AsBytes(ToStringPretty(JObj(f.obj), 0)))
         return == /\ ustack' = Pop(ustack)
                   /\ pc' = IF Len(ustack) = 1 THEN "done" ELSE "unpacking"
                   /\ ures' = IF Len(ustack) = 1 THEN Ok(0) ELSE ures
     IN
     IF ~has_config \/ (config_file_meta.t = "str" /\ DOMAIN f.obj = {})
     THEN return /\ UNCHANGED << dest, wlog >>
     ELSE IF config_file_meta.t # "str" THEN UnpackFail("config file has to be a string")
     ELSE IF ~dna_file.ok THEN UnpackFail(dna_file.e)
     ELSE /\ return
          /\ dest' = dna_file.v
          /\ wlog' = Append(wlog, [to |-> f.to, entry |-> config_file_meta.s,
                                  kind |-> "config", path |-> file_path,
                                  value |-> JObj(f.obj)])
  /\ UnpackFrame

\* ------------------------------------------------------------ the inputs
\* the trees package is run on: every tree of at most MaxNodes files and
\* directories over the names and the contents below
MaxNodes == 3

Hi == <<104, 105>>

NameA == <<"a">>
NameD == <<"d", ".", "j", "s", "o", "n">>
NameE == <<"e", ".", "j", "s", "o", "n">>

TreeNames == {NameA, NameD, NameE, META_SECTION_NAME, BUILD_CONFIG_FILE_NAME}

DirNames == {NameA, NameD, META_SECTION_NAME}

\* a config file as to_writer_pretty writes it, the same object on one line, the
\* empty object, and an object with a member under the reserved key
ConfigObject == JObj(MapInsert(EmptyMap, NameA, JNum(1)))
TextPretty == AsBytes(ToStringPretty(ConfigObject, 0))
TextCompact == AsBytes(ValueToString(ConfigObject))
TextEmpty == AsBytes(<<"{", "}">>)
ForgedObject ==
  JObj(MapInsert(MapInsert(EmptyMap, NameA, JStr(Base64Encode(Hi))),
                 META_SECTION_NAME,
                 JObj(MapInsert(EmptyMap, META_TREE_SECTION_NAME,
                                JObj(MapInsert(EmptyMap, NameA, JStr(META_FILE_ID)))))))
TextForged == AsBytes(ToStringPretty(ForgedObject, 0))

\* {"steps":{"<c1>":[], ...},"artifact":"a"}, the commands in the order given
RECURSIVE StepsText(_)
StepsText(cmds) ==
  IF cmds = <<>> THEN <<>>
  ELSE Quoted(Head(cmds)) \o <<":", "[", "]">>
       \o (IF Len(cmds) > 1 THEN <<",">> ELSE <<>>) \o StepsText(Tail(cmds))

DescriptorText(cmds, artifact) ==
  AsBytes(<<"{">> \o Quoted(StepsKey) \o <<":", "{">> \o StepsText(cmds) \o <<"}", ",">>
          \o Quoted(ArtifactKey) \o <<":">> \o Quoted(artifact) \o <<"}">>)

Descriptors ==
  { DescriptorText(<<CmdTrue>>, NameA),
    DescriptorText(<<CmdTrue, CmdEcho>>, NameA),
    DescriptorText(<<CmdTrue, CmdFalse>>, NameA) }

FilesFor(n) ==
  IF n = BUILD_CONFIG_FILE_NAME THEN {FileNode(b) : b \in Descriptors \cup {Hi}}
  ELSE IF EndsWith(n, JSON_SUFFIX)
       THEN {FileNode(b) : b \in {Hi, TextEmpty, TextPretty, TextCompact, TextForged}}
  ELSE {FileNode(Hi)}

RECURSIVE Dirs(_)
\* the directories of at most n nodes
Dirs(n) ==
  IF n = 0 THEN {EmptyDir}
  ELSE LET smaller == [k \in 0..(n - 1) |-> Dirs(k)] IN
       smaller[n - 1] \cup
       UNION { UNION { { MapInsert(rest, m, node) :
                           rest \in {r \in smaller[n - k] : m \notin DOMAIN r},
                           node \in FilesFor(m) \cup
                                    (IF m \in DirNames
                                     THEN {DirNode(c) : c \in smaller[k - 1]}
                                     ELSE {}) }
                       : k \in 1..n }
               : m \in TreeNames }

Trees == Dirs(MaxNodes)

\* --------------------------------------------------- package, then unpack
\* nothing has run
Fresh ==
  /\ dest = EmptyDir
  /\ pc = "idle"
  /\ packs = 0
  /\ pstack = <<>>
  /\ pres = NoResult
  /\ ustack = <<>>
  /\ ures = NoResult
  /\ builds = <<>>
  /\ configs = {}
  /\ returned = <<>>
  /\ docs = <<>>
  /\ wlog = <<>>

Init ==
  /\ fs \in Trees
  /\ tree0 = fs
  /\ strip \in BOOLEAN
  /\ output \in {"default", "external"}
  /\ extBundle = NoFile
  /\ Fresh

Next ==
  \/ PackStart(1)
  \/ PackFile
  \/ PackBuildStart
  \/ BuildStep
  \/ BuildFinish
  \/ PackDirEnter
  \/ PackReturn
  \/ PackFinish
  \/ UnpackStart(1)
  \/ UnpackFile
  \/ UnpackBin
  \/ UnpackDir
  \/ UnpackIncompatible
  \/ UnpackReturn

Spec == Init /\ [][Next]_vars

\* ------------------------------------------------ package run twice over
NextRepack ==
  \/ PackStart(2)
  \/ PackFile
  \/ PackBuildStart
  \/ BuildStep
  \/ BuildFinish
  \/ PackDirEnter
  \/ PackReturn
  \/ PackFinish

SpecRepack == Init /\ [][NextRepack]_vars

\* ------------------------------------------------- unpack of any bundle
\* the bundles unpack is given: a root level of two names, each with or
\* without a kind in the tree of the meta section and with or without a value
\* in the object, the values of kind dir being levels of one name themselves
Absent == [t |-> "absent"]

Payload == JStr(Base64Encode(Hi))
BadPayload == JStr(<<"!">>)
CodeObject == JObj(MapInsert(EmptyMap, CODE_DIR_NAME, Payload))

NameAB == <<"a", ".", "b">>

Kinds == {JStr(META_FILE_ID), JStr(META_DIR_ID), JStr(META_BIN_ID), JStr(<<"z">>), JNum(1)}

Slots(kinds, values) == {[kind |-> k, value |-> v] : k \in kinds \cup {Absent}, v \in values}

With(o, k, v) == IF v = Absent THEN o ELSE MapInsert(o, k, v)

\* the object of a level: the values, and the meta section if it has a member
LevelObject(obj, tree, cfg) ==
  LET meta_section ==
        With(With(EmptyMap, META_TREE_SECTION_NAME,
                  IF DOMAIN tree = {} THEN Absent ELSE JObj(tree)),
             META_CONFIG_SECTION_NAME, cfg)
  IN With(obj, META_SECTION_NAME,
          IF DOMAIN meta_section = {} THEN Absent ELSE JObj(meta_section))

SubLevels ==
  { LevelObject(With(EmptyMap, NameAB, s.value), With(EmptyMap, NameAB, s.kind), cfg) :
      s \in Slots({JStr(META_FILE_ID), JStr(META_DIR_ID), JStr(META_BIN_ID)},
                  {Absent, Payload, BadPayload, CodeObject}),
      cfg \in {Absent, JStr(NameD)} }

RootSlots ==
  Slots(Kinds, {Absent, Payload, BadPayload, JObj(EmptyMap), CodeObject})
    \cup {[kind |-> JStr(META_DIR_ID), value |-> JObj(l)] : l \in SubLevels}

Bundles ==
  { LevelObject(With(With(EmptyMap, NameA, s1.value), CODE_DIR_NAME, s2.value),
                With(With(EmptyMap, NameA, s1.kind), CODE_DIR_NAME, s2.kind), cfg) :
      s1 \in RootSlots, s2 \in RootSlots,
      cfg \in {Absent, JStr(NameD), JStr(NameA), JNum(1)} }

\* the files at the bundle path: the bundles, a meta section and a tree that
\* are not objects, a document that is not an object, bytes that are not JSON,
\* and no file
BundleFiles ==
  {FileNode(AsBytes(ToStringPretty(JObj(b), 0))) : b \in Bundles}
    \cup {FileNode(AsBytes(ToStringPretty(v, 0))) :
            v \in {JObj(MapInsert(MapInsert(EmptyMap, NameA, Payload), META_SECTION_NAME, JNum(1))),
                   JObj(MapInsert(MapInsert(EmptyMap, NameA, Payload), META_SECTION_NAME,
                                  JObj(MapInsert(EmptyMap, META_TREE_SECTION_NAME, JNum(1))))),
                   JArr(<<>>)}}
    \cup {FileNode(Hi), NoFile}

InitUnpack ==
  /\ fs = EmptyDir
  /\ tree0 = fs
  /\ strip = FALSE
  /\ output = "external"
  /\ extBundle \in BundleFiles
  /\ Fresh

NextUnpack ==
  \/ UnpackStart(0)
  \/ UnpackFile
  \/ UnpackBin
  \/ UnpackDir
  \/ UnpackIncompatible
  \/ UnpackReturn

SpecUnpack == InitUnpack /\ [][NextUnpack]_vars

\* ------------------------------------------------------------ the claims
\* the tree without the entries the walker leaves out
RECURSIVE Visible(_)
Visible(ch) ==
  [n \in WalkRoot(ch) |-> IF ch[n].k = "dir" THEN DirNode(Visible(ch[n].ch)) ELSE ch[n]]

\* the fields of a file that holds a JSON object
FieldsOf(node) ==
  IF node.k = "file" /\ FromUtf8(node.bytes).ok
  THEN ObjectFromStr(FromUtf8(node.bytes).v)
  ELSE Err("not a text file")

\* plain files and plain directories, at most one .json file a level and that
\* one a JSON object, no .build file, nothing named as the reserved key
RECURSIVE PlainTree(_)
PlainTree(ch) ==
  /\ BUILD_CONFIG_FILE_NAME \notin DOMAIN ch
  /\ META_SECTION_NAME \notin DOMAIN ch
  /\ Cardinality(JsonFiles(ch)) <= 1
  /\ \A n \in JsonFiles(ch) :
       FieldsOf(ch[n]).ok /\ META_SECTION_NAME \notin DOMAIN FieldsOf(ch[n]).v
  /\ \A n \in DOMAIN ch : ch[n].k = "dir" => PlainTree(ch[n].ch)

\* C1: package with the metadata kept, then unpack into an empty directory,
\* of a tree of plain files and plain directories with at most one JSON object
\* file a level succeeds and leaves in the destination the names, the
\* hierarchy and the bytes of the tree (without the entries the walker skips).
C1_RoundTrip ==
  (pc = "done" /\ ~strip /\ PlainTree(tree0))
    => (pres.ok /\ ures.ok /\ dest = Visible(tree0))

\* the root of the packed tree has no child of the reserved name, and the
\* config file hoisted at the root has no field of that name
RootClean ==
  /\ META_SECTION_NAME \notin WalkRoot(tree0)
  /\ \A c \in configs :
       (Len(c) = 1 /\ FieldsOf(NodeAt(tree0, c)).ok)
         => META_SECTION_NAME \notin DOMAIN FieldsOf(NodeAt(tree0, c)).v

\* C2 as stated: unpack of the bundle package --strip-meta wrote fails or
\* writes nothing, whatever the tree.
C2_StrippedNeverWrites ==
  (pc = "done" /\ strip /\ pres.ok) => (~ures.ok \/ wlog = <<>>)

\* C2 as amended: when the root has no child and no hoisted config field of
\* the reserved name, unpack of the bundle package --strip-meta wrote writes no
\* file and no directory.
C2_StrippedCleanNeverWrites ==
  (strip /\ RootClean) => (dest = EmptyDir /\ wlog = <<>>)

C2_Witness ==
  /\ pc = "done" /\ strip /\ pres.ok /\ ures.ok
  /\ RootClean
  /\ JsonFiles(tree0) # {}
  /\ \E n \in WalkRoot(tree0) : tree0[n].k = "dir" /\ WalkRoot(tree0[n].ch) # {}
  /\ wlog = <<>>

\* a step of a build failed or its artifact is missing, or a file taken as a
\* level's config file is not a JSON object
PackAborts ==
  \/ \E p \in DOMAIN builds : builds[p].state = "failed"
  \/ \E c \in configs : ~FieldsOf(NodeAt(tree0, c)).ok

NoBundleWritten ==
  /\ extBundle = NoFile
  /\ ~Exists(fs, <<DEFAULT_BUNDLE_FILE_NAME>>)
  /\ fs = tree0
  /\ docs = <<>>

\* C3: when a build step fails, an artifact is missing or a config file is not
\* a JSON object, at any depth, package returns an error and the bundle file is
\* neither created nor written; nothing is written before package has walked
\* the whole tree.
C3_BuildFailureAbort ==
  /\ PackAborts => (pc # "packing" /\ packs = 1 /\ ~pres.ok /\ NoBundleWritten)
  /\ pc = "packing" => NoBundleWritten
  /\ (packs = 1 /\ ~pres.ok) => NoBundleWritten

C3_Witness ==
  /\ packs = 1 /\ ~pres.ok /\ NoBundleWritten
  /\ \E p \in DOMAIN builds :
       /\ Len(p) = 2
       /\ builds[p].state = "failed"
       /\ builds[p].ran # <<>>
       /\ builds[p].ran[Len(builds[p].ran)] = CmdFalse

IsProperPrefix(p, q) == Len(p) < Len(q) /\ SubSeq(q, 1, Len(p)) = p

\* the directory at p was built and the level that holds it has returned
Built(p) == builds[p].state = "ok" /\ Pop(p) \in DOMAIN returned

\* the object of the parent level maps the name to { "code": encode(B) }
BuildSubstituted(p) ==
  LET parent == returned[Pop(p)]
      artifact_path == Append(p, builds[p].artifact)
      B == NodeAt(tree0, artifact_path).bytes
  IN /\ Exists(tree0, artifact_path) /\ IsFile(tree0, artifact_path)
     /\ Top(p) \in DOMAIN parent.obj
     /\ parent.obj[Top(p)] = JObj(MapInsert(EmptyMap, CODE_DIR_NAME, JStr(Base64Encode(B))))

\* the tree of the meta section has the name as bin, and package went into
\* nothing under the directory
BuildRecorded(p) ==
  /\ Top(p) \in DOMAIN returned[Pop(p)].meta_tree
  /\ returned[Pop(p)].meta_tree[Top(p)] = JStr(META_BIN_ID)
  /\ \A q \in (DOMAIN returned) \cup (DOMAIN builds) \cup configs : ~IsProperPrefix(p, q)

\* C4 as stated: every directory D with a .build file whose build succeeds
\* with artifact bytes B is { "code": encode(B) } under its name in the object
\* of its parent level, is bin in the tree of the meta section, and has no
\* file or directory of its own in the bundle.
C4_BuildSubstitution ==
  \A p \in DOMAIN builds : Built(p) => (BuildSubstituted(p) /\ BuildRecorded(p))

\* C4 as amended: the same for every such directory whose name is not the
\* reserved key.
C4_BuildSubstitutionNamed ==
  \A p \in DOMAIN builds :
    (Built(p) /\ Top(p) # META_SECTION_NAME) => (BuildSubstituted(p) /\ BuildRecorded(p))

C4_Witness ==
  /\ packs = 1 /\ pres.ok /\ ~strip
  /\ \E p \in DOMAIN builds :
       /\ Built(p) /\ Top(p) # META_SECTION_NAME
       /\ Len(builds[p].ran) = 2
       /\ BuildSubstituted(p) /\ BuildRecorded(p)

\* the shape the value of an entry must have for the kind the tree declares
DeclaredShape(kind) ==
  IF kind = JStr(META_FILE_ID) THEN "str"
  ELSE IF kind \in {JStr(META_DIR_ID), JStr(META_BIN_ID)} THEN "obj"
  ELSE "no kind"

\* the loop is at an entry the object lacks or whose value has another shape
Mismatched ==
  /\ InLoop
  /\ \/ MetaEntry \notin DOMAIN Top(ustack).obj
     \/ Top(ustack).obj[MetaEntry].t # DeclaredShape(MetaValue)

\* the tree of the root level of the bundle declares as dir a name whose value
\* is a string
RootDirIsString ==
  LET b == FieldsOf(extBundle) IN
  /\ b.ok
  /\ META_SECTION_NAME \in DOMAIN b.v
  /\ LET tree == IndexValue(b.v[META_SECTION_NAME], META_TREE_SECTION_NAME) IN
     /\ tree.t = "obj"
     /\ \E n \in DOMAIN tree.o :
          tree.o[n] = JStr(META_DIR_ID) /\ n \in DOMAIN b.v /\ b.v[n].t = "str"

\* C5: when the loop of unpack is at a name of the tree that the object of the
\* level lacks, or whose value has not the shape its kind declares (a string
\* for file, an object for dir and bin, no other kind), the step fails with
\* "incompatible meta section" and writes nothing; and unpack of a bundle
\* whose root declares as dir a name whose value is a string fails.
C5_MismatchRejected ==
  [][ /\ Mismatched => /\ pc' = "done"
                       /\ ures' = Err(IncompatibleMeta)
                       /\ dest' = dest
                       /\ wlog' = wlog
                       /\ ustack' = <<>>
      /\ (pc' = "done" /\ RootDirIsString) => ~ures'.ok ]_vars

C5_Witness ==
  /\ pc = "done"
  /\ ures = Err(IncompatibleMeta)
  /\ RootDirIsString
  /\ wlog # <<>>

\* some directory package reaches holds a .build file
RECURSIVE HasBuildable(_)
HasBuildable(ch) ==
  \E n \in WalkRoot(ch) :
    ch[n].k = "dir" /\ (HasBuildConfig(ch[n]) \/ HasBuildable(ch[n].ch))

\* C6: package run twice on a tree where no build runs writes the same bytes
\* twice.
C6_MetadataIdempotence ==
  (packs = 2 /\ Len(docs) = 2 /\ ~HasBuildable(tree0)) => docs[1] = docs[2]

\* the payload of the code field of the value, decoded
CodeOf(v) ==
  IF v.t = "obj" /\ CODE_DIR_NAME \in DOMAIN v.o /\ v.o[CODE_DIR_NAME].t = "str"
  THEN Base64Decode(v.o[CODE_DIR_NAME].s)
  ELSE Err("no code field")

\* C7: at an entry of kind bin whose value is an object with a code payload,
\* unpack writes the decoded payload to the file of the entry's name with
\* .wasm appended.
C7_BinDecoding ==
  [][ (InLoop /\ EntryPresent /\ KindIs(META_BIN_ID) /\ Entry.t = "obj" /\ CodeOf(Entry).ok)
        => LET file_path == Append(Top(ustack).to,
                                   MetaEntry \o <<".">> \o WASM_FILE_EXTENSION)
           IN /\ IsFile(dest', file_path)
              /\ NodeAt(dest', file_path).bytes = CodeOf(Entry).v ]_vars

IsPrefix(s, q) == Len(s) <= Len(q) /\ SubSeq(q, 1, Len(s)) = s

\* C8: the commands of a build run in the order the descriptor declares them,
\* none runs after one that failed, and the artifact is read only after all
\* of them ran.
C8_BuildStepOrdering ==
  \A p \in DOMAIN builds :
    /\ IsPrefix(builds[p].ran, builds[p].declared)
    /\ builds[p].state = "ok" => builds[p].ran = builds[p].declared

\* the directory of the level at p, and the names package takes at that level
LevelDir(p) == IF p = <<>> THEN tree0 ELSE NodeAt(tree0, p).ch
ConfigName(p) == {Top(c) : c \in {x \in configs : Pop(x) = p}}
Classified(p) == WalkRoot(LevelDir(p)) \ ConfigName(p)

KindOf(node) ==
  IF node.k = "file" THEN META_FILE_ID
  ELSE IF HasBuildConfig(node) THEN META_BIN_ID
  ELSE META_DIR_ID

\* the meta section the claim describes for the level
ExpectedMeta(p) ==
  LET tree == [n \in Classified(p) |-> JStr(KindOf(LevelDir(p)[n]))]
      named == IF ConfigName(p) = {} THEN EmptyMap
               ELSE MapInsert(EmptyMap, META_CONFIG_SECTION_NAME,
                              JStr(CHOOSE n \in ConfigName(p) : TRUE))
  IN IF Classified(p) = {} THEN named
     ELSE MapInsert(named, META_TREE_SECTION_NAME, JObj(tree))

MetaPresent(p) == META_SECTION_NAME \in DOMAIN returned[p].obj

ReservedKeyRule(p) ==
  /\ MetaPresent(p) <=> (~strip /\ (ConfigName(p) # {} \/ Classified(p) # {}))
  /\ MetaPresent(p) => returned[p].obj[META_SECTION_NAME] = JObj(ExpectedMeta(p))

\* no child of the level and no field of its config file has the reserved name
LevelClean(p) ==
  /\ META_SECTION_NAME \notin WalkRoot(LevelDir(p))
  /\ \A n \in ConfigName(p) : META_SECTION_NAME \notin DOMAIN FieldsOf(LevelDir(p)[n]).v

\* C9 as stated: at every level of the output the reserved key is there if and
\* only if the metadata is kept and the level has a config file or a child;
\* its tree then has one entry a child, of the kind of the child, none for the
\* config file, and config_file is the name of the config file.
C9_ReservedKeyPresence ==
  \A p \in DOMAIN returned : ReservedKeyRule(p)

\* C9 as amended: the same at every level where no child and no field of the
\* hoisted config file is named as the reserved key.
C9_ReservedKeyPresenceClean ==
  \A p \in DOMAIN returned : LevelClean(p) => ReservedKeyRule(p)

C9_Witness ==
  \E p \in DOMAIN returned :
    /\ Len(p) = 1
    /\ ~strip
    /\ LevelClean(p)
    /\ ConfigName(p) # {}
    /\ Classified(p) # {}
    /\ MetaPresent(p)
    /\ ReservedKeyRule(p)

\* C10: the step at which unpack fails writes nothing and removes nothing,
\* what was written before is on disk, every call of unpack_recurse is left
\* (no later entry and no config file is written), and unpack returns the error.
C10_NoRollback ==
  [][ (pc' = "done" /\ ~ures'.ok)
        => /\ dest' = dest
           /\ wlog' = wlog
           /\ ustack' = <<>>
           /\ \A i \in 1..Len(wlog) : Exists(dest', wlog[i].path) ]_vars

C10_Witness ==
  /\ pc = "done"
  /\ ~ures.ok
  /\ Len(wlog) >= 2
  /\ \E i \in 1..Len(wlog) : Len(wlog[i].to) = 1
  /\ \A i \in 1..Len(wlog) : Exists(dest, wlog[i].path)
====
